---------------------------- MODULE Spec2Model ----------------------------
(***************************************************************************)
(* A model of the one-file UCI chess engine in src/main.cpp.               *)
(*                                                                         *)
(* Representation choices:                                                 *)
(*  - a U64 bitboard is the set of its set bits (a subset of 0..63);       *)
(*    | is \cup, & is \cap, ^ is the symmetric difference Xor;             *)
(*  - a Zobrist key is named by its index in the key tables (the 64-bit    *)
(*    values come from rand()); a hash is the set of keys XORed into it    *)
(*    an odd number of times, so ^ on hashes is again Xor.  Two hashes     *)
(*    that are equal here are equal in the program for every key table;    *)
(*  - sides, piece kinds, squares and castle masks are the program's       *)
(*    integers.                                                            *)
(***************************************************************************)
EXTENDS Integers, Sequences, FiniteSets, TLC

PAWN == 0
KNIGHT == 1
BISHOP == 2
ROOK == 3
QUEEN == 4
KING == 5
WHITE == 0
BLACK == 1

INF == 999999
MATE == 100000
MAX_QUIESCENCE_DEPTH == 6

Squares == 0..63
Kinds == 0..5
Sides == 0..1
SquareSeq == [i \in 1..64 |-> i - 1]

Xor(A, B) == (A \ B) \cup (B \ A)
Abs(x) == IF x < 0 THEN 0 - x ELSE x
Max(a, b) == IF a > b THEN a ELSE b
Min(a, b) == IF a < b THEN a ELSE b

\* __builtin_ctzll on a non-empty bitboard: its lowest set bit.
Ctz(bb) == CHOOSE s \in bb : \A t \in bb : s <= t

\* The squares of a bitboard in the order the  while (bb) { ctz; bb &= bb-1 }
\* loops visit them.
BitsInOrder(bb) == SelectSeq(SquareSeq, LAMBDA s : s \in bb)

\* The concatenation of ss[lo], ..., ss[hi]; the range is split in halves so
\* that the evaluation nests no deeper than the logarithm of its length.
RECURSIVE FlattenRange(_, _, _)
FlattenRange(ss, lo, hi) ==
  IF lo > hi THEN <<>>
  ELSE IF lo = hi THEN ss[lo]
  ELSE FlattenRange(ss, lo, (lo + hi) \div 2)
         \o FlattenRange(ss, ((lo + hi) \div 2) + 1, hi)

Flatten(ss) == FlattenRange(ss, 1, Len(ss))

\* Zobrist key tables: the key's identity is its table position.
zobristPieces(c, p, sq) == c * 384 + p * 64 + sq
zobristCastle(c) == 768 + c
zobristEp(sq) == 784 + sq
zobristSide == 848

\* ------------------------------------------------------------------ moves

Move(f, t, p, c, pr) ==
  [from |-> f, to |-> t, piece |-> p, captured |-> c, promo |-> pr, score |-> 0]

DefaultMove == Move(0, 0, 0, -1, 0)

MoveEq(a, b) == a.from = b.from /\ a.to = b.to /\ a.promo = b.promo

\* ----------------------------------------------------------- attack tables

KingMoves ==
  [sq \in Squares |->
     {((sq \div 8) + dy) * 8 + ((sq % 8) + dx) :
        <<dx, dy>> \in {d \in {-1, 0, 1} \X {-1, 0, 1} :
                          /\ d # <<0, 0>>
                          /\ (sq % 8) + d[1] >= 0 /\ (sq % 8) + d[1] < 8
                          /\ (sq \div 8) + d[2] >= 0 /\ (sq \div 8) + d[2] < 8}}]

KnightMoves ==
  [sq \in Squares |->
     {((sq \div 8) + dy) * 8 + ((sq % 8) + dx) :
        <<dx, dy>> \in {d \in {<<2, 1>>, <<2, -1>>, <<-2, 1>>, <<-2, -1>>,
                               <<1, 2>>, <<1, -2>>, <<-1, 2>>, <<-1, -2>>} :
                          /\ (sq % 8) + d[1] >= 0 /\ (sq % 8) + d[1] < 8
                          /\ (sq \div 8) + d[2] >= 0 /\ (sq \div 8) + d[2] < 8}}]

\* One ray loop of get_rook_attacks / get_bishop_attacks: from (r, f), step
\* (dr, df), OR in every square visited and stop after the first blocker.
\* The k-th square visited is on the board, and no earlier one is a blocker.
RayLoop(r, f, dr, df, blockers) ==
  {(r + k * dr) * 8 + (f + k * df) :
     k \in {j \in 0..7 :
              /\ r + j * dr >= 0 /\ r + j * dr <= 7
              /\ f + j * df >= 0 /\ f + j * df <= 7
              /\ \A i \in 0..(j - 1) :
                   ((r + i * dr) * 8 + (f + i * df)) \notin blockers}}

get_rook_attacks(sq, blockers) ==
  LET tr == sq \div 8
      tf == sq % 8
  IN  RayLoop(tr + 1, tf, 1, 0, blockers) \cup RayLoop(tr - 1, tf, -1, 0, blockers)
      \cup RayLoop(tr, tf + 1, 0, 1, blockers) \cup RayLoop(tr, tf - 1, 0, -1, blockers)

get_bishop_attacks(sq, blockers) ==
  LET tr == sq \div 8
      tf == sq % 8
  IN  RayLoop(tr + 1, tf + 1, 1, 1, blockers) \cup RayLoop(tr + 1, tf - 1, 1, -1, blockers)
      \cup RayLoop(tr - 1, tf + 1, -1, 1, blockers) \cup RayLoop(tr - 1, tf - 1, -1, -1, blockers)

is_attacked(sq, attacker, b) ==
  \/ /\ attacker = WHITE
     /\ \/ sq >= 9 /\ (sq % 8) # 0 /\ (sq - 9) \in b.pieces[WHITE][PAWN]
        \/ sq >= 7 /\ (sq % 8) # 7 /\ (sq - 7) \in b.pieces[WHITE][PAWN]
  \/ /\ attacker # WHITE
     /\ \/ sq <= 56 /\ (sq % 8) # 0 /\ (sq + 7) \in b.pieces[BLACK][PAWN]
        \/ sq <= 54 /\ (sq % 8) # 7 /\ (sq + 9) \in b.pieces[BLACK][PAWN]
  \/ KnightMoves[sq] \cap b.pieces[attacker][KNIGHT] # {}
  \/ KingMoves[sq] \cap b.pieces[attacker][KING] # {}
  \/ get_rook_attacks(sq, b.all)
       \cap (b.pieces[attacker][ROOK] \cup b.pieces[attacker][QUEEN]) # {}
  \/ get_bishop_attacks(sq, b.all)
       \cap (b.pieces[attacker][BISHOP] \cup b.pieces[attacker][QUEEN]) # {}

isInCheck(b) ==
  IF b.pieces[b.side][KING] = {} THEN FALSE
  ELSE is_attacked(Ctz(b.pieces[b.side][KING]), 1 - b.side, b)

\* ------------------------------------------------------------------ board

zobristHash(b) ==
  LET pieceKeys == UNION {{zobristPieces(c, p, sq) : sq \in b.pieces[c][p]} :
                            <<c, p>> \in Sides \X Kinds}
      h1 == Xor(pieceKeys, {zobristCastle(b.castle)})
      h2 == IF b.ep # -1 THEN Xor(h1, {zobristEp(b.ep)}) ELSE h1
  IN  IF b.side = BLACK THEN Xor(h2, {zobristSide}) ELSE h2

\* Board::update: occupied and all rebuilt from pieces.
BoardUpdate(b) ==
  LET occ == [c \in Sides |-> UNION {b.pieces[c][p] : p \in Kinds}]
  IN  [b EXCEPT !.occupied = occ, !.all = occ[WHITE] \cup occ[BLACK]]

StartPieces ==
  [c \in Sides |->
     IF c = WHITE
     THEN [p \in Kinds |->
             CASE p = PAWN -> 8..15
               [] p = KNIGHT -> {1, 6}
               [] p = BISHOP -> {2, 5}
               [] p = ROOK -> {0, 7}
               [] p = QUEEN -> {3}
               [] OTHER -> {4}]
     ELSE [p \in Kinds |->
             CASE p = PAWN -> 48..55
               [] p = KNIGHT -> {57, 62}
               [] p = BISHOP -> {58, 61}
               [] p = ROOK -> {56, 63}
               [] p = QUEEN -> {59}
               [] OTHER -> {60}]]

\* Board::init.
BoardInit ==
  LET b0 == BoardUpdate([pieces |-> StartPieces, occupied |-> [c \in Sides |-> {}],
                         all |-> {}, side |-> WHITE, ep |-> -1, castle |-> 15,
                         hash |-> {}])
  IN  [b0 EXCEPT !.hash = zobristHash(b0)]

HasBit(castle, k) == (castle \div k) % 2 = 1

\* castle &= ~mask, the mask given as the set of its bits.
ClearBits(castle, mask) ==
  (IF HasBit(castle, 1) /\ 1 \notin mask THEN 1 ELSE 0)
  + (IF HasBit(castle, 2) /\ 2 \notin mask THEN 2 ELSE 0)
  + (IF HasBit(castle, 4) /\ 4 \notin mask THEN 4 ELSE 0)
  + (IF HasBit(castle, 8) /\ 8 \notin mask THEN 8 ELSE 0)

\* A faulty castling-rights update: only a king's move clears bits.
CastleAfterKingMoveOnly(b, m) ==
  ClearBits(b.castle,
    IF m.piece = KING THEN (IF b.side = WHITE THEN {1, 2} ELSE {4, 8}) ELSE {})

\* The castling-rights update of makeMove: the bits its five statements
\* clear.
CastleAfter(b, m) ==
  ClearBits(b.castle,
    UNION {IF m.piece = KING THEN (IF b.side = WHITE THEN {1, 2} ELSE {4, 8}) ELSE {},
           IF m.from = 0 \/ m.to = 0 THEN {2} ELSE {},
           IF m.from = 7 \/ m.to = 7 THEN {1} ELSE {},
           IF m.from = 56 \/ m.to = 56 THEN {8} ELSE {},
           IF m.from = 63 \/ m.to = 63 THEN {4} ELSE {}})

\* The rook squares of the castling move whose king lands on  to .
CastleRook(to) ==
  CASE to = 6 -> [side |-> WHITE, sqs |-> {7, 5}]
    [] to = 2 -> [side |-> WHITE, sqs |-> {0, 3}]
    [] to = 62 -> [side |-> BLACK, sqs |-> {63, 61}]
    [] to = 58 -> [side |-> BLACK, sqs |-> {56, 59}]
    [] OTHER -> [side |-> WHITE, sqs |-> {}]

\* x ^= sets[1]; x ^= sets[2]; ... from x = 0: the elements that are in an
\* odd number of the sets.
XorAll(sets) ==
  {x \in UNION {sets[i] : i \in DOMAIN sets} :
     Cardinality({i \in DOMAIN sets : x \in sets[i]}) % 2 = 1}

\* A faulty capture loop: it finds nothing.
CapturedNothing(b, to) == -1

\* The kind the capture loop of makeMove finds on  to , -1 when it finds none.
CapturedKind(b, to) ==
  LET hit == {p \in Kinds : to \in b.pieces[1 - b.side][p]}
  IN  IF hit = {} THEN -1 ELSE Ctz(hit)

\* makeMove, given the kind its capture loop finds.  Each  ^=  on a bitboard
\* is one step of p1 .. pieces, a step whose condition fails toggling nothing;
\* hash is the old hash with the keys of the executed  ^=  folded in.
MakeMoveCapturing(b, m, cap) ==
  LET side == b.side
      opponent == 1 - b.side
      isEp == m.piece = PAWN /\ m.to = b.ep
      captured_pawn_sq == IF side = WHITE THEN m.to - 8 ELSE m.to + 8
      isDouble == m.piece = PAWN /\ Abs(m.from - m.to) = 16
      ep == IF isDouble THEN (IF side = WHITE THEN m.from + 8 ELSE m.from - 8) ELSE -1
      isPromo == m.piece = PAWN /\ m.promo # 0
      cr == CastleRook(m.to)
      isCastle == m.piece = KING /\ Abs(m.from - m.to) = 2 /\ cr.sqs # {}
      castle == CastleAfter(b, m)
      p1 == [b.pieces EXCEPT ![side][m.piece] = Xor(@, {m.from} \cup {m.to})]
      p2 == [p1 EXCEPT ![opponent][IF cap # -1 THEN cap ELSE PAWN] =
               Xor(@, IF cap # -1 THEN {m.to} ELSE {})]
      p3 == [p2 EXCEPT ![opponent][PAWN] =
               Xor(@, IF isEp THEN {captured_pawn_sq} ELSE {})]
      p4 == [p3 EXCEPT ![side][PAWN] = Xor(@, IF isPromo THEN {m.to} ELSE {})]
      p5 == [p4 EXCEPT ![side][IF isPromo THEN m.promo ELSE PAWN] =
               Xor(@, IF isPromo THEN {m.to} ELSE {})]
      pieces == [p5 EXCEPT ![cr.side][ROOK] = Xor(@, IF isCastle THEN cr.sqs ELSE {})]
      hash ==
        Xor(b.hash,
            XorAll(<<{zobristPieces(side, m.piece, m.from)},
                     {zobristPieces(side, m.piece, m.to)},
                     IF b.ep # -1 THEN {zobristEp(b.ep)} ELSE {},
                     {zobristCastle(b.castle)},
                     {zobristCastle(castle)},
                     IF cap # -1 THEN {zobristPieces(opponent, cap, m.to)} ELSE {},
                     IF isEp THEN {zobristPieces(opponent, PAWN, captured_pawn_sq)}
                     ELSE {},
                     IF isDouble THEN {zobristEp(ep)} ELSE {},
                     IF isPromo THEN {zobristPieces(side, PAWN, m.to)} ELSE {},
                     IF isPromo THEN {zobristPieces(side, m.promo, m.to)} ELSE {},
                     IF isCastle
                     THEN {zobristPieces(cr.side, ROOK, sq) : sq \in cr.sqs}
                     ELSE {},
                     {zobristSide}>>))
  IN  [BoardUpdate([b EXCEPT !.pieces = pieces, !.castle = castle, !.ep = ep])
         EXCEPT !.side = opponent, !.hash = hash]

\* A faulty makeMove: the key of the old en-passant square stays in the hash.
makeMoveKeepingEpKey(b, m) ==
  [MakeMoveCapturing(b, m, CapturedKind(b, m.to))
     EXCEPT !.hash = Xor(@, IF b.ep # -1 THEN {zobristEp(b.ep)} ELSE {})]

makeMove(b, m) == MakeMoveCapturing(b, m, CapturedKind(b, m.to))

\* isLegalMove, given the copy the move was made on.
KingNotAttacked(copy, side) ==
  IF copy.pieces[side][KING] = {} THEN FALSE
  ELSE ~is_attacked(Ctz(copy.pieces[side][KING]), copy.side, copy)

isLegalMove(b, m) == KingNotAttacked(makeMove(b, m), b.side)

\* ------------------------------------------------------- move generation

\* The moves pushed for the pawn on  from , in push order.
PawnMoves(b, from, capturesOnly) ==
  LET dir == IF b.side = WHITE THEN 8 ELSE -8
      promo_rank == IF b.side = WHITE THEN 7 ELSE 0
      start_rank == IF b.side = WHITE THEN 1 ELSE 6
      to_sq == from + dir
      to_sq2 == from + 2 * dir
      pushes ==
        IF capturesOnly THEN <<>>
        ELSE IF to_sq >= 0 /\ to_sq < 64 /\ to_sq \notin b.all
        THEN IF (to_sq \div 8) = promo_rank
             THEN <<Move(from, to_sq, PAWN, -1, QUEEN)>>
             ELSE <<Move(from, to_sq, PAWN, -1, 0)>>
                  \o (IF (from \div 8) = start_rank /\ to_sq2 \notin b.all
                      THEN <<Move(from, to_sq2, PAWN, -1, 0)>>
                      ELSE <<>>)
        ELSE <<>>
      capt(d) ==
        LET to == from + d
        IN  IF to < 0 \/ to > 63 \/ Abs((from % 8) - (to % 8)) > 1 THEN <<>>
            ELSE IF to \in b.occupied[1 - b.side]
            THEN IF (to \div 8) = promo_rank
                 THEN <<Move(from, to, PAWN, 0, QUEEN)>>
                 ELSE <<Move(from, to, PAWN, -1, 0)>>
            ELSE IF ~capturesOnly /\ to = b.ep
            THEN <<Move(from, to, PAWN, -1, 0)>>
            ELSE <<>>
  IN  pushes \o capt(dir - 1) \o capt(dir + 1)

\* The castling moves pushed for the king, in push order.
CastlingMoves(b) ==
  IF isInCheck(b) THEN <<>>
  ELSE IF b.side = WHITE
  THEN (IF HasBit(b.castle, 1) /\ b.all \cap {5, 6} = {}
           /\ ~is_attacked(5, BLACK, b) /\ ~is_attacked(6, BLACK, b)
        THEN <<Move(4, 6, KING, -1, 0)>> ELSE <<>>)
       \o
       (IF HasBit(b.castle, 2) /\ b.all \cap {1, 2, 3} = {}
           /\ ~is_attacked(3, BLACK, b) /\ ~is_attacked(2, BLACK, b)
        THEN <<Move(4, 2, KING, -1, 0)>> ELSE <<>>)
  ELSE (IF HasBit(b.castle, 4) /\ b.all \cap {61, 62} = {}
           /\ ~is_attacked(61, WHITE, b) /\ ~is_attacked(62, WHITE, b)
        THEN <<Move(60, 62, KING, -1, 0)>> ELSE <<>>)
       \o
       (IF HasBit(b.castle, 8) /\ b.all \cap {57, 58, 59} = {}
           /\ ~is_attacked(59, WHITE, b) /\ ~is_attacked(58, WHITE, b)
        THEN <<Move(60, 58, KING, -1, 0)>> ELSE <<>>)

\* The moves pushed for the piece of kind p on  from .
PieceMoves(b, p, from, capturesOnly) ==
  IF p = PAWN THEN PawnMoves(b, from, capturesOnly)
  ELSE
    LET raw == CASE p = KNIGHT -> KnightMoves[from]
                 [] p = BISHOP -> get_bishop_attacks(from, b.all)
                 [] p = ROOK -> get_rook_attacks(from, b.all)
                 [] p = QUEEN -> get_rook_attacks(from, b.all)
                                   \cup get_bishop_attacks(from, b.all)
                 [] OTHER -> KingMoves[from]
        attacks == IF capturesOnly THEN raw \cap b.occupied[1 - b.side]
                   ELSE raw \ b.occupied[b.side]
        castling == IF p = KING /\ ~capturesOnly THEN CastlingMoves(b) ELSE <<>>
        targets == BitsInOrder(attacks)
    IN  castling \o [i \in 1..Len(targets) |-> Move(from, targets[i], p, -1, 0)]

PseudoMoves(b, capturesOnly) ==
  Flatten([p \in 1..6 |->
             LET froms == BitsInOrder(b.pieces[b.side][p - 1])
             IN  Flatten([i \in 1..Len(froms) |->
                            PieceMoves(b, p - 1, froms[i], capturesOnly)])])

\* A faulty generateMoves: the legality filter is left out.
generateUnfiltered(b, capturesOnly) == PseudoMoves(b, capturesOnly)

generateMoves(b, capturesOnly) ==
  SelectSeq(PseudoMoves(b, capturesOnly), LAMBDA m : isLegalMove(b, m))

\* ------------------------------------------------------------- evaluation

Count(S) == Cardinality(S)

EvalValues == <<100, 320, 330, 500, 900, 0>>

\* The material loop counting White's pieces only.
MaterialOfWhite(b, p) == Count(b.pieces[WHITE][p]) * EvalValues[p + 1]

\* The material loop of Board::evaluate for one kind.
Material(b, p) ==
  (Count(b.pieces[WHITE][p]) - Count(b.pieces[BLACK][p])) * EvalValues[p + 1]

\* The pawns of a bitboard that stand on rank index r.
OnRank(bb, r) == Count({sq \in bb : (sq \div 8) = r})

\* Board::evaluate.
evaluate(b) ==
  LET material == Material(b, PAWN) + Material(b, KNIGHT) + Material(b, BISHOP)
                  + Material(b, ROOK) + Material(b, QUEEN) + Material(b, KING)
      wk == IF b.pieces[WHITE][KING] = {} THEN 0
            ELSE LET king_sq == Ctz(b.pieces[WHITE][KING])
                 IN  IF king_sq = 6 \/ king_sq = 2 THEN 40
                     ELSE IF king_sq = 4 THEN -20 ELSE 0
      bk == IF b.pieces[BLACK][KING] = {} THEN 0
            ELSE LET king_sq == Ctz(b.pieces[BLACK][KING])
                 IN  IF king_sq = 62 \/ king_sq = 58 THEN -40
                     ELSE IF king_sq = 60 THEN 20 ELSE 0
      center == {27, 28, 35, 36}
      centre == (Count(b.pieces[WHITE][PAWN] \cap center)
                 - Count(b.pieces[BLACK][PAWN] \cap center)) * 20
      \* (rank - 3) * 15 for each white pawn on rank index 4..7
      wp == 15 * OnRank(b.pieces[WHITE][PAWN], 4) + 30 * OnRank(b.pieces[WHITE][PAWN], 5)
            + 45 * OnRank(b.pieces[WHITE][PAWN], 6) + 60 * OnRank(b.pieces[WHITE][PAWN], 7)
      \* (4 - rank) * 15 for each black pawn on rank index 0..3
      bp == 15 * OnRank(b.pieces[BLACK][PAWN], 3) + 30 * OnRank(b.pieces[BLACK][PAWN], 2)
            + 45 * OnRank(b.pieces[BLACK][PAWN], 1) + 60 * OnRank(b.pieces[BLACK][PAWN], 0)
      eval == material + wk + bk + centre + wp - bp
  IN  IF b.side = WHITE THEN eval ELSE 0 - eval

\* ----------------------------------------------------------------- tables

TT_EXACT == 0
TT_ALPHA == 1
TT_BETA == 2

\* A zeroed transposition-table slot (memset).
ZeroEntry == [hash |-> {}, depth |-> 0, score |-> 0, flag |-> 0, bestMove |-> 0]

\* The slot  transpositionTable[hash % TT_SIZE] .  Slots are named by the hash
\* that indexes them: two positions of one bounded run are taken not to share
\* a slot, and a slot never written is zero.
TTProbe(tt, hash) == IF hash \in DOMAIN tt THEN tt[hash] ELSE ZeroEntry

TTStore(tt, hash, e) == [h \in DOMAIN tt \cup {hash} |-> IF h = hash THEN e ELSE tt[h]]

\* from | (to << 6) | (piece << 12)
PackMove(m) == m.from + 64 * m.to + 4096 * m.piece

\* The three fields search() reads back out of a packed move written into  m .
UnpackInto(m, packed) ==
  [m EXCEPT !.from = packed % 64,
            !.to = (packed \div 64) % 64,
            !.piece = (packed \div 4096) % 8]

\* HistoryTable: the entries that were ever written; all others are 0.
HistoryGet(h, side, from, to) ==
  IF <<side, from, to>> \in DOMAIN h THEN h[<<side, from, to>>] ELSE 0

\* The update without the aging loop.
HistoryUpdateWithoutAging(h, side, from, to, depth) ==
  [x \in DOMAIN h \cup {<<side, from, to>>} |->
     IF x = <<side, from, to>> THEN HistoryGet(h, side, from, to) + depth * depth
     ELSE h[x]]

HistoryUpdate(h, side, from, to, depth) ==
  LET k == <<side, from, to>>
      v == HistoryGet(h, side, from, to) + depth * depth
      h1 == [x \in DOMAIN h \cup {k} |-> IF x = k THEN v ELSE h[x]]
  IN  IF v > 100000 THEN [x \in DOMAIN h1 |-> h1[x] \div 2] ELSE h1

\* KillerMoves holds Move* values that point into the move vector of the node
\* that registered them; the vector is destroyed when that node returns.  A
\* pointer is kept here as the element's position in its vector (0 is the
\* null pointer).  Whether a later vector of the same ply occupies the same
\* memory is the allocator's choice:  alias  is TRUE when it does (addresses
\* are then equal exactly when the positions are) and FALSE when it never
\* does (no later address equals a stored one).
KillerSlots(k, ply) == IF ply \in DOMAIN k THEN k[ply] ELSE <<0, 0>>

isKiller(k, idx, ply, alias) ==
  alias /\ (KillerSlots(k, ply)[1] = idx \/ KillerSlots(k, ply)[2] = idx)

KillerUpdate(k, idx, ply, alias) ==
  LET cur == KillerSlots(k, ply)
  IN  IF alias /\ cur[1] = idx THEN k
      ELSE [p \in DOMAIN k \cup {ply} |-> IF p = ply THEN <<idx, cur[1]>> ELSE k[p]]

\* ------------------------------------------------------------ move ordering

Comp(a, b) == a.score > b.score

Swap(v, i, j) == [v EXCEPT ![i] = v[j], ![j] = v[i]]

\* std::__move_median_to_first(result, a, b, c) on 1-based positions.
MoveMedianToFirst(v, result, a, b, c) ==
  IF Comp(v[a], v[b])
  THEN IF Comp(v[b], v[c]) THEN Swap(v, result, b)
       ELSE IF Comp(v[a], v[c]) THEN Swap(v, result, c)
       ELSE Swap(v, result, a)
  ELSE IF Comp(v[a], v[c]) THEN Swap(v, result, a)
  ELSE IF Comp(v[b], v[c]) THEN Swap(v, result, c)
  ELSE Swap(v, result, b)

\* std::__unguarded_partition(first, last, pivot): returns the array and the cut.
RECURSIVE UnguardedPartition(_, _, _, _)
UnguardedPartition(v, first, last, pivot) ==
  LET \* while (comp(first, pivot)) ++first
      f == CHOOSE i \in first..Len(v) :
             /\ ~Comp(v[i], v[pivot])
             /\ \A k \in first..(i - 1) : Comp(v[k], v[pivot])
      \* --last; while (comp(pivot, last)) --last
      l == CHOOSE j \in 1..(last - 1) :
             /\ ~Comp(v[pivot], v[j])
             /\ \A k \in (j + 1)..(last - 1) : Comp(v[pivot], v[k])
  IN  IF ~(f < l) THEN [v |-> v, cut |-> f]
      ELSE UnguardedPartition(Swap(v, f, l), f + 1, l, pivot)

Lg(n) == CHOOSE k \in 0..31 : 2 ^ k <= n /\ n < 2 ^ (k + 1)

\* A stable sort by descending score: what std::__insertion_sort and the
\* unguarded insertion of std::__final_insertion_sort compute.
\* An element lands after those that compare before it and after the earlier
\* ones that it does not compare before.
InsertionSort(v) ==
  LET before == [i \in 1..Len(v) |->
                   Cardinality({j \in 1..Len(v) :
                                  Comp(v[j], v[i]) \/ (j < i /\ ~Comp(v[i], v[j]))})]
  IN  [k \in 1..Len(v) |-> v[CHOOSE i \in 1..Len(v) : before[i] = k - 1]]

\* std::__introsort_loop on the half-open range of 1-based positions
\* [first, last).  When the depth limit runs out the library heap-sorts the
\* range; the final insertion sort then leaves the range sorted, and the model
\* leaves it to that sort.
RECURSIVE IntrosortLoop(_, _, _, _)
IntrosortLoop(v, first, last, depth_limit) ==
  IF last - first <= 16 \/ depth_limit = 0 THEN v
  ELSE LET mid == first + ((last - first) \div 2)
           v1 == MoveMedianToFirst(v, first, first + 1, mid, last - 1)
           pr == UnguardedPartition(v1, first + 1, last, first)
           v2 == IntrosortLoop(pr.v, pr.cut, last, depth_limit - 1)
       IN  IntrosortLoop(v2, first, pr.cut, depth_limit - 1)

\* std::sort(moves.begin(), moves.end(), by descending score) as libstdc++
\* runs it: introsort partitioning above 16 elements, then insertion sort.
stdSort(v) ==
  IF v = <<>> THEN v
  ELSE InsertionSort(IntrosortLoop(v, 1, Len(v) + 1, 2 * Lg(Len(v))))

VictimValues == <<100, 300, 300, 500, 900, 10000>>

\* The score scoreMoves gives the move at position idx of the unsorted vector.
MoveScore(m, idx, b, hasTT, ttMove, ply, tables, alias) ==
  IF hasTT /\ MoveEq(m, ttMove) THEN 1000000
  ELSE
    LET base ==
          IF m.to \in b.occupied[1 - b.side]
          THEN LET hit == {p \in Kinds : m.to \in b.pieces[1 - b.side][p]}
               IN  IF hit = {} THEN m.score
                   ELSE LET p == CHOOSE q \in hit : \A r \in hit : r <= q
                        IN  100000 + VictimValues[p + 1] * 10
                                   - VictimValues[m.piece + 1]
          ELSE IF isKiller(tables.killers, idx, ply, alias) THEN 90000
          ELSE HistoryGet(tables.history, b.side, m.from, m.to)
    IN  IF m.promo = QUEEN THEN base + 80000 ELSE base

scoreMoves(moves, b, hasTT, ttMove, ply, tables, alias) ==
  stdSort([i \in 1..Len(moves) |->
             [moves[i] EXCEPT !.score =
                MoveScore(moves[i], i, b, hasTT, ttMove, ply, tables, alias)]])


\* ------------------------------------------------------------------ search

\* A search configuration:  prune  switches null-move pruning, late-move
\* reductions, futility pruning and delta pruning (all on in the program; off
\* gives the reference search the equivalence property compares against);
\* alias  is the allocator's choice described at KillerMoves.
\*
\* Each function below is written as a chain of steps, one per local variable
\* of the code: a step receives the values computed so far as arguments.

RECURSIVE quiescence(_, _, _, _, _, _)

\* q holds what the capture loop of one quiescence call reads:
\* b, beta, depth, stand_pat, tables, cfg.  acc holds alpha and whether the
\* loop was left by "return beta".

\* The loop body for captures[i].
Capture(q, captures, i, acc, score) ==
  IF score >= q.beta THEN [alpha |-> q.beta, cut |-> TRUE]
  ELSE [alpha |-> IF score > acc.alpha THEN score ELSE acc.alpha, cut |-> FALSE]

TryCapture(q, captures, i, acc) ==
  IF q.cfg.prune
     /\ q.stand_pat + (IF captures[i].piece # PAWN THEN 900 ELSE 200) < acc.alpha
     /\ q.depth < -1
  THEN acc
  ELSE Capture(q, captures, i, acc,
         0 - quiescence(makeMove(q.b, captures[i]), 0 - q.beta, 0 - acc.alpha,
                        q.depth - 1, q.tables, q.cfg))

\* The loop over captures[lo..hi], in order; the range is split in halves so
\* that the evaluation nests no deeper than the logarithm of its length.
RECURSIVE CaptureLoop(_, _, _, _, _)
CaptureLoop(q, captures, lo, hi, acc) ==
  IF acc.cut \/ lo > hi THEN acc
  ELSE IF lo = hi THEN TryCapture(q, captures, lo, acc)
  ELSE CaptureLoop(q, captures, ((lo + hi) \div 2) + 1, hi,
                   CaptureLoop(q, captures, lo, (lo + hi) \div 2, acc))

Captures(q, captures, alpha) ==
  CaptureLoop(q, captures, 1, Len(captures), [alpha |-> alpha, cut |-> FALSE]).alpha

AfterStandPat(b, alpha0, beta, depth, tables, cfg, stand_pat) ==
  IF stand_pat >= beta THEN beta
  ELSE IF depth <= 0 - MAX_QUIESCENCE_DEPTH THEN stand_pat
  ELSE Captures([b |-> b, beta |-> beta, depth |-> depth,
                 stand_pat |-> stand_pat, tables |-> tables, cfg |-> cfg],
                scoreMoves(generateMoves(b, TRUE), b, FALSE, DefaultMove, 0,
                           tables, cfg.alias),
                IF alpha0 < stand_pat THEN stand_pat ELSE alpha0)

quiescence(b, alpha0, beta, depth, tables, cfg) ==
  AfterStandPat(b, alpha0, beta, depth, tables, cfg, evaluate(b))

\* The copy search() makes for the null move.
NullMoveCopy(b) ==
  [b EXCEPT !.side = 1 - b.side, !.hash = Xor(b.hash, {zobristSide}), !.ep = -1]

\* The late-move reduction of the move at position moveCount of the sorted vector.
Reduction(b, m, moveCount, depth, inCheck, ply, tables, cfg) ==
  IF cfg.prune /\ moveCount > 4 /\ depth >= 3 /\ ~inCheck
     /\ m.to \notin b.occupied[1 - b.side] /\ m.promo = 0
  THEN LET r == IF moveCount > 12 THEN 3 ELSE IF moveCount > 6 THEN 2 ELSE 1
       IN  IF isKiller(tables.killers, moveCount, ply, cfg.alias)
              \/ HistoryGet(tables.history, b.side, m.from, m.to) > 5000
           THEN Max(0, r - 1) ELSE r
  ELSE 0

\* search() returns its score, the caller's bestMove as it leaves it, and the
\* tables as it leaves them.
Ret(s, bm, t) == [score |-> s, bestMove |-> bm, tables |-> t]

RECURSIVE search(_, _, _, _, _, _, _, _, _)

\* n holds what the move loop of one search call reads: b, inCheck, depth
\* (after the check extension), alpha0 (origAlpha), beta, bestMove, ply, cfg,
\* ttMove.  acc holds what the loop writes: alpha, bestScore, localBest,
\* bestMove, tables, and whether the loop was left by a break.

\* The loop body from "if (score > bestScore)" on, the move's score being
\* -s.score and the tables those its searches left.
AfterSearches(n, moves, moveCount, acc, s) ==
  LET m == moves[moveCount]
      quiet == m.to \notin n.b.occupied[1 - n.b.side]
      score == 0 - s.score
      better == score > acc.bestScore
      alpha == IF score > acc.alpha THEN score ELSE acc.alpha
  IN  [alpha |-> alpha,
       bestScore |-> IF better THEN score ELSE acc.bestScore,
       localBest |-> IF better THEN m ELSE acc.localBest,
       bestMove |-> IF better /\ n.ply = 0 THEN m ELSE acc.bestMove,
       tables |->
         [tt |-> s.tables.tt,
          killers |-> IF alpha >= n.beta /\ quiet
                      THEN KillerUpdate(s.tables.killers, moveCount, n.ply, n.cfg.alias)
                      ELSE s.tables.killers,
          history |-> IF score > acc.alpha /\ quiet
                      THEN HistoryUpdate(s.tables.history, n.b.side, m.from, m.to,
                                         n.depth)
                      ELSE s.tables.history],
       break |->
         \/ alpha >= n.beta
         \/ /\ n.cfg.prune /\ n.depth <= 2 /\ ~n.inCheck /\ moveCount > 8 /\ quiet
            /\ evaluate(n.b) + n.depth * 100 < alpha]

\* "Re-search without reduction if reduced search failed high".
AfterPVS(n, moves, moveCount, acc, copy, reduction, s) ==
  AfterSearches(n, moves, moveCount, acc,
    IF reduction > 0 /\ 0 - s.score > acc.alpha
    THEN search(copy, n.depth - 1, 0 - n.beta, 0 - acc.alpha, DefaultMove,
                n.ply + 1, TRUE, s.tables, n.cfg)
    ELSE s)

\* "Re-search if failed high" of the null-window search.
AfterFirstSearch(n, moves, moveCount, acc, copy, reduction, s) ==
  AfterPVS(n, moves, moveCount, acc, copy, reduction,
    IF moveCount # 1 /\ 0 - s.score > acc.alpha /\ 0 - s.score < n.beta
    THEN search(copy, n.depth - 1, 0 - n.beta, 0 - acc.alpha, DefaultMove,
                n.ply + 1, TRUE, s.tables, n.cfg)
    ELSE s)

SearchMove(n, moves, moveCount, acc, copy, reduction) ==
  AfterFirstSearch(n, moves, moveCount, acc, copy, reduction,
    search(copy, n.depth - 1 - reduction,
           IF moveCount = 1 THEN 0 - n.beta ELSE 0 - acc.alpha - 1,
           0 - acc.alpha, DefaultMove, n.ply + 1, TRUE, acc.tables, n.cfg))

\* The loop body for moves[moveCount].
TryMove(n, moves, moveCount, acc) ==
  SearchMove(n, moves, moveCount, acc, makeMove(n.b, moves[moveCount]),
             Reduction(n.b, moves[moveCount], moveCount, n.depth, n.inCheck, n.ply,
                       acc.tables, n.cfg))

\* The loop over moves[lo..hi], in order; the range is split in halves so
\* that the evaluation nests no deeper than the logarithm of its length.
RECURSIVE MoveLoop(_, _, _, _, _)
MoveLoop(n, moves, lo, hi, acc) ==
  IF acc.break THEN acc
  ELSE IF lo = hi THEN TryMove(n, moves, lo, acc)
  ELSE MoveLoop(n, moves, ((lo + hi) \div 2) + 1, hi,
                MoveLoop(n, moves, lo, (lo + hi) \div 2, acc))

\* "Store in transposition table".
StoreResult(n, fin) ==
  Ret(fin.bestScore, fin.bestMove,
      [fin.tables EXCEPT !.tt =
         TTStore(@, n.b.hash,
                 [hash |-> n.b.hash, depth |-> n.depth, score |-> fin.bestScore,
                  flag |-> IF fin.bestScore <= n.alpha0 THEN TT_ALPHA
                           ELSE IF fin.bestScore >= n.beta THEN TT_BETA
                           ELSE TT_EXACT,
                  bestMove |-> PackMove(fin.localBest)])])

SearchSorted(n, t1, moves) ==
  StoreResult(n,
    MoveLoop(n, moves, 1, Len(moves),
             [alpha |-> n.alpha0, bestScore |-> 0 - INF, localBest |-> DefaultMove,
              bestMove |-> IF n.ply = 0 THEN moves[1] ELSE n.bestMove,
              tables |-> t1, break |-> FALSE]))

SearchGenerated(n, t1, generated) ==
  IF generated = <<>>
  THEN Ret(IF n.inCheck THEN n.ply - MATE ELSE 0, n.bestMove, t1)
  ELSE SearchSorted(n, t1,
         scoreMoves(generated, n.b, TTProbe(t1.tt, n.b.hash).hash = n.b.hash,
                    n.ttMove, n.ply, t1, n.cfg.alias))

\* After the null-move search (nm, read only when it was tried).
AfterNullMove(n, tables, tryNull, nm) ==
  IF tryNull /\ 0 - nm.score >= n.beta THEN Ret(n.beta, n.bestMove, nm.tables)
  ELSE SearchGenerated(n, IF tryNull THEN nm.tables ELSE tables,
                       generateMoves(n.b, FALSE))

SearchNode(n, nullMove, tables) ==
  LET e == TTProbe(tables.tt, n.b.hash)
      hit == e.hash = n.b.hash
      tryNull == n.cfg.prune /\ nullMove /\ ~n.inCheck /\ n.depth >= 3 /\ n.ply > 0
  IN
  IF hit /\ e.depth >= n.depth /\ e.flag = TT_EXACT
  THEN Ret(e.score,
           IF n.ply = 0 THEN UnpackInto(n.bestMove, e.bestMove) ELSE n.bestMove,
           tables)
  ELSE IF hit /\ e.depth >= n.depth /\ e.flag = TT_ALPHA /\ e.score <= n.alpha0
  THEN Ret(n.alpha0, n.bestMove, tables)
  ELSE IF hit /\ e.depth >= n.depth /\ e.flag = TT_BETA /\ e.score >= n.beta
  THEN Ret(n.beta, n.bestMove, tables)
  ELSE IF n.depth <= 0
  THEN Ret(quiescence(n.b, n.alpha0, n.beta, 0, tables, n.cfg), n.bestMove, tables)
  ELSE AfterNullMove(
         [n EXCEPT !.ttMove = IF hit /\ e.bestMove # 0
                              THEN UnpackInto(DefaultMove, e.bestMove)
                              ELSE DefaultMove],
         tables, tryNull,
         IF tryNull
         THEN search(NullMoveCopy(n.b), n.depth - 1 - (IF n.depth > 6 THEN 3 ELSE 2),
                     0 - n.beta, 0 - n.beta + 1, DefaultMove, n.ply + 1, FALSE,
                     tables, n.cfg)
         ELSE Ret(0, DefaultMove, tables))

AfterCheckTest(b, depth, alpha, beta, bestMove, ply, nullMove, tables, cfg, inCheck) ==
  SearchNode([b |-> b, inCheck |-> inCheck,
              depth |-> IF inCheck THEN depth + 1 ELSE depth,
              alpha0 |-> alpha, beta |-> beta, bestMove |-> bestMove, ply |-> ply,
              cfg |-> cfg, ttMove |-> DefaultMove],
             nullMove, tables)

search(b, depth, alpha, beta, bestMove, ply, nullMove, tables, cfg) ==
  AfterCheckTest(b, depth, alpha, beta, bestMove, ply, nullMove, tables, cfg,
                 isInCheck(b))

EmptyTables == [tt |-> <<>>, killers |-> <<>>, history |-> <<>>]


\* --------------------------------------------------------------- UCI text

\* Character codes of the characters input tokens are built from.
Ascii ==
  [c \in {"a", "b", "c", "d", "e", "f", "g", "h", "i", "n", "q", "r", "x",
          "0", "1", "2", "3", "4", "5", "6", "7", "8", "9"} |->
     CASE c = "a" -> 97 [] c = "b" -> 98 [] c = "c" -> 99 [] c = "d" -> 100
       [] c = "e" -> 101 [] c = "f" -> 102 [] c = "g" -> 103 [] c = "h" -> 104
       [] c = "i" -> 105 [] c = "n" -> 110 [] c = "q" -> 113 [] c = "r" -> 114
       [] c = "x" -> 120 [] c = "0" -> 48 [] c = "1" -> 49 [] c = "2" -> 50
       [] c = "3" -> 51 [] c = "4" -> 52 [] c = "5" -> 53 [] c = "6" -> 54
       [] c = "7" -> 55 [] c = "8" -> 56 [] OTHER -> 57]

FileChar == <<"a", "b", "c", "d", "e", "f", "g", "h">>
RankChar == <<"1", "2", "3", "4", "5", "6", "7", "8">>

\* The text the go handler and the info line build for a move: the string is
\* a sequence of characters.
MoveString(m) ==
  <<FileChar[(m.from % 8) + 1], RankChar[(m.from \div 8) + 1],
    FileChar[(m.to % 8) + 1], RankChar[(m.to \div 8) + 1]>>
  \o (CASE m.promo = QUEEN -> <<"q">>
        [] m.promo = ROOK -> <<"r">>
        [] m.promo = BISHOP -> <<"b">>
        [] m.promo = KNIGHT -> <<"n">>
        [] OTHER -> <<>>)

\* The loop of parseMove over the generated moves: the first one that matches.
FindMove(moves, from, to, promo_piece) ==
  LET match == {i \in 1..Len(moves) :
                  /\ moves[i].from = from /\ moves[i].to = to
                  /\ (moves[i].promo # 0 => moves[i].promo = promo_piece)}
  IN  IF match = {} THEN [ok |-> FALSE, move |-> DefaultMove]
      ELSE [ok |-> TRUE, move |-> moves[Ctz(match)]]

\* parseMove from "int from = ..." on,  moves  being what generateMoves
\* returned, on a token of at least four characters (a shorter one reads past
\* the end of the string and is not among the inputs).
ParseAmong(moves, move_str) ==
  FindMove(moves,
           (Ascii[move_str[1]] - 97) + (Ascii[move_str[2]] - 49) * 8,
           (Ascii[move_str[3]] - 97) + (Ascii[move_str[4]] - 49) * 8,
           IF Len(move_str) = 5
           THEN CASE move_str[5] = "q" -> QUEEN
                  [] move_str[5] = "r" -> ROOK
                  [] move_str[5] = "b" -> BISHOP
                  [] move_str[5] = "n" -> KNIGHT
                  [] OTHER -> 0
           ELSE 0)

parseMove(b, move_str) == ParseAmong(generateMoves(b, FALSE), move_str)

\* ------------------------------------------------------------ input lines

\* One input line, as the handlers read it: its first word (cmd, "" when the
\* line holds no word) and the words after it, already grouped by the handler
\* that reads them.  A number that is absent is -1.
Line(c) ==
  [cmd |-> c, sub |-> "", hasMoves |-> FALSE, moves |-> <<>>,
   option |-> "", value |-> -1,
   depth |-> -1, movetime |-> -1, wtime |-> -1, btime |-> -1, winc |-> -1,
   binc |-> -1, movestogo |-> -1, infinite |-> FALSE]

EmptyLine == Line("")

\* What ends a fixed text: getline finds no further line.
Eof == Line("<eof>")
PositionLine(sub, hasMoves, moves) ==
  [Line("position") EXCEPT !.sub = sub, !.hasMoves = hasMoves, !.moves = moves]
SetOptionLine(name, v) == [Line("setoption") EXCEPT !.option = name, !.value = v]
GoDepth(d) == [Line("go") EXCEPT !.depth = d]


\* ------------------------------------------------------------ the program

VARIABLES
  board,     \* main's Board
  tables,    \* transpositionTable, killerMoves, historyTable
  depthOpt,  \* uciOptions.depth
  cmd,       \* main's cmd string, declared outside the read loop
  line,      \* the line read last
  pc,        \* "idle" (in getline), "moves", "search", "bestmove", "quit", "crashed"
  out,       \* what has been printed since the last line was read
  go,        \* the locals of the go handler and of iterativeDeepening
  rest,      \* tokens of the current line not read yet
  script,    \* a fixed text's lines not read yet, Eof last; <<>> when the
             \* input is arbitrary lines
  moved,     \* history: the squares a piece has left since the last Board::init
  plies      \* history: moves applied since the last Board::init

vars == <<board, tables, depthOpt, cmd, line, pc, out, go, rest, script, moved, plies>>

DefaultDepth == 8

NoGo ==
  [depth |-> 0, maxDepth |-> 0, timeLimit |-> 0, score |-> 0, alpha |-> 0,
   beta |-> 0, window |-> 0, bestMove |-> DefaultMove, completed |-> <<>>]

InitCommon ==
  /\ board = BoardInit
  /\ tables = EmptyTables
  /\ depthOpt = DefaultDepth
  /\ cmd = ""
  /\ line = EmptyLine
  /\ pc = "idle"
  /\ out = <<>>
  /\ go = NoGo
  /\ rest = <<>>
  /\ moved = {}
  /\ plies = 0

\* getline succeeded and iss >> cmd ran: a line without a word leaves cmd as
\* it was.
Read(l) ==
  /\ pc = "idle"
  /\ IF script = <<>> THEN TRUE ELSE l = Head(script)
  /\ line' = l
  /\ cmd' = IF l.cmd = "" THEN cmd ELSE l.cmd
  /\ script' = IF script = <<>> THEN script ELSE Tail(script)

Uci(l) ==
  /\ Read(l)
  /\ cmd' = "uci"
  /\ out' = <<"id name NanoChessTurbo", "id author CrvProject",
              "option name Depth type spin default 10 min 1 max 30",
              "option name Hash type spin default 64 min 1 max 1024",
              "uciok">>
  /\ UNCHANGED <<board, tables, depthOpt, pc, go, rest, moved, plies>>

SetOption(l) ==
  /\ Read(l)
  /\ cmd' = "setoption"
  /\ depthOpt' = IF l.option = "Depth"
                 THEN Max(1, Min(30, IF l.value < 0 THEN 0 ELSE l.value))
                 ELSE depthOpt
  /\ out' = <<>>
  /\ UNCHANGED <<board, tables, pc, go, rest, moved, plies>>

IsReady(l) ==
  /\ Read(l)
  /\ cmd' = "isready"
  /\ out' = <<"readyok">>
  /\ UNCHANGED <<board, tables, depthOpt, pc, go, rest, moved, plies>>

\* The handler with Board::init accumulating the hash ( hash ^= ) instead of
\* assigning it.
UciNewGameXoringHash(l) ==
  /\ Read(l)
  /\ cmd' = "ucinewgame"
  /\ board' = [BoardInit EXCEPT !.hash = Xor(board.hash, BoardInit.hash)]
  /\ tables' = EmptyTables
  /\ moved' = {}
  /\ plies' = 0
  /\ out' = <<>>
  /\ UNCHANGED <<depthOpt, pc, go, rest>>

UciNewGame(l) ==
  /\ Read(l)
  /\ cmd' = "ucinewgame"
  /\ board' = BoardInit
  /\ tables' = EmptyTables
  /\ moved' = {}
  /\ plies' = 0
  /\ out' = <<>>
  /\ UNCHANGED <<depthOpt, pc, go, rest>>

\* The position handler up to its token loop.
Position(l) ==
  /\ Read(l)
  /\ cmd' = "position"
  /\ out' = <<>>
  /\ IF l.sub \in {"startpos", "fen"}
     THEN /\ board' = BoardInit
          /\ moved' = {}
          /\ plies' = 0
          /\ pc' = IF l.hasMoves THEN "moves" ELSE "idle"
          /\ rest' = IF l.hasMoves THEN l.moves ELSE <<>>
     ELSE UNCHANGED <<board, moved, plies, pc, rest>>
  /\ UNCHANGED <<tables, depthOpt, go>>

\* if (parseMove(board, token, m)) makeMove(board, m), parseMove having
\* returned r.
ApplyParsed(r) ==
  IF r.ok
  THEN /\ board' = makeMove(board, r.move)
       /\ moved' = moved \cup {r.move.from}
                     \cup (IF r.move.piece = KING /\ Abs(r.move.to - r.move.from) = 2
                           THEN CastleRook(r.move.to).sqs \cap {0, 7, 56, 63} ELSE {})
       /\ plies' = plies + 1
  ELSE UNCHANGED <<board, moved, plies>>

\* One pass of the token loop.
Token(tok) ==
  /\ pc = "moves"
  /\ ApplyParsed(parseMove(board, tok))
  /\ rest' = IF rest = <<>> THEN rest ELSE Tail(rest)
  /\ UNCHANGED <<tables, depthOpt, cmd, line, pc, out, go, script>>

\* The token loop finds the line exhausted.
PositionEnd ==
  /\ pc = "moves"
  /\ rest = <<>>
  /\ pc' = "idle"
  /\ UNCHANGED <<board, tables, depthOpt, cmd, line, out, go, rest, script, moved, plies>>

Quit(l) ==
  /\ Read(l)
  /\ cmd' = "quit"
  /\ pc' = "quit"
  /\ out' = <<>>
  /\ UNCHANGED <<board, tables, depthOpt, go, rest, moved, plies>>

\* getline fails: the read loop ends and main returns.
InputEnd ==
  /\ pc = "idle"
  /\ script \in {<<>>, <<Eof>>}
  /\ pc' = "quit"
  /\ script' = <<>>
  /\ UNCHANGED <<board, tables, depthOpt, cmd, line, out, go, rest, moved, plies>>

\* No branch of the if-chain matches cmd.
NoBranch(l) ==
  /\ Read(l)
  /\ cmd' \notin {"uci", "setoption", "isready", "ucinewgame", "position", "go", "quit"}
  /\ out' = <<>>
  /\ UNCHANGED <<board, tables, depthOpt, pc, go, rest, moved, plies>>


\* What the steady clock can have advanced by, in milliseconds, when an
\* iteration ends.
MaxElapsed == 60000
ElapsedMs == {0, MaxElapsed}

\* The go handler up to the call of iterativeDeepening: the argument loop and
\* the time allocation.  timeLeft / movestogo with movestogo = 0 is undefined:
\* the division traps, or it yields a value and the handler goes on.
GoStart(l) ==
  /\ Read(l)
  /\ cmd' = "go"
  /\ out' = <<>>
  /\ LET searchDepth == IF l.infinite THEN 20
                        ELSE IF l.depth >= 0 THEN Max(1, Min(30, l.depth))
                        ELSE depthOpt
         moveTime == IF l.movetime >= 0 THEN l.movetime ELSE 0
         wtime == IF l.wtime >= 0 THEN l.wtime ELSE 0
         btime == IF l.btime >= 0 THEN l.btime ELSE 0
         winc == IF l.winc >= 0 THEN l.winc ELSE 0
         binc == IF l.binc >= 0 THEN l.binc ELSE 0
         movestogo == IF l.movestogo >= 0 THEN l.movestogo ELSE 40
         timeLeft == IF board.side = WHITE THEN wtime ELSE btime
         increment == IF board.side = WHITE THEN winc ELSE binc
         byClock == ~l.infinite /\ moveTime = 0 /\ (wtime > 0 \/ btime > 0)
         Start(allocatedTime) ==
           /\ pc' = "search"
           /\ go' = [depth |-> 1, maxDepth |-> searchDepth,
                     timeLimit |-> allocatedTime, score |-> 0, alpha |-> -INF,
                     beta |-> INF, window |-> 50, bestMove |-> DefaultMove,
                     completed |-> <<>>]
     IN  IF byClock
         THEN IF movestogo = 0
              THEN \/ /\ pc' = "crashed"
                      /\ go' = NoGo
                   \/ \E q \in {0, timeLeft} :
                        Start(Min(q + ((increment * 4) \div 5), timeLeft \div 3))
              ELSE Start(Min((timeLeft \div movestogo) + ((increment * 4) \div 5),
                             timeLeft \div 3))
         ELSE IF moveTime > 0
              THEN Start((moveTime * 95) \div 100)
              ELSE Start(0)
  /\ UNCHANGED <<board, tables, depthOpt, rest, moved, plies>>

IsMateScore(score) == Abs(score) >= MATE - 1000

\* The info line of one iteration; the node count and rate are left out.
InfoLine(depth, score, bestMove) ==
  [info |-> TRUE, depth |-> depth,
   kind |-> IF IsMateScore(score) THEN "mate" ELSE "cp",
   value |-> IF IsMateScore(score)
             THEN (IF score < 0 THEN -1 ELSE 1) * ((MATE - Abs(score) + 1) \div 2)
             ELSE score,
   pv |-> MoveString(bestMove)]

\* One pass of the loop of iterativeDeepening from "score = tempScore" on:
\* r is what the last search of the pass returned, ms the clock's reading.
AfterIteration(alpha, beta, outside, r, ms) ==
  LET depth == go.depth
      g == [go EXCEPT !.alpha = alpha, !.beta = beta, !.score = r.score,
                      !.window = IF outside THEN 50 ELSE 25,
                      !.bestMove = r.bestMove,
                      !.completed = Append(go.completed, depth)]
  IN  /\ tables' = r.tables
      /\ IF go.timeLimit > 0 /\ 5 * ms > 2 * go.timeLimit /\ depth > 4
         THEN /\ go' = g
              /\ out' = out
              /\ pc' = "bestmove"
         ELSE /\ out' = Append(out, InfoLine(depth, r.score, r.bestMove))
              /\ IF IsMateScore(r.score) \/ depth + 1 > go.maxDepth
                 THEN /\ go' = g
                      /\ pc' = "bestmove"
                 ELSE /\ go' = [g EXCEPT !.depth = depth + 1]
                      /\ pc' = "search"

\* "Re-search if outside window", r being what the first search returned.
AfterWindowSearch(alpha, beta, cfg, r, ms) ==
  AfterIteration(alpha, beta, r.score <= alpha \/ r.score >= beta,
    IF r.score <= alpha \/ r.score >= beta
    THEN search(board, go.depth, -INF, INF, r.bestMove, 0, TRUE, r.tables, cfg)
    ELSE r,
    ms)

WindowSearch(alpha, beta, cfg, ms) ==
  AfterWindowSearch(alpha, beta, cfg,
    search(board, go.depth, alpha, beta, go.bestMove, 0, TRUE, tables, cfg), ms)

\* One pass of the loop with search() making its best move on the Board it is
\* given instead of on a copy.
IterateOnTheBoard ==
  /\ pc = "search"
  /\ \E alias \in BOOLEAN, ms \in ElapsedMs :
       WindowSearch(IF go.depth >= 4 THEN go.score - go.window ELSE go.alpha,
                    IF go.depth >= 4 THEN go.score + go.window ELSE go.beta,
                    [prune |-> TRUE, alias |-> alias], ms)
  /\ board' = IF go'.bestMove = DefaultMove THEN board
               ELSE makeMove(board, go'.bestMove)
  /\ UNCHANGED <<depthOpt, cmd, line, rest, script, moved, plies>>

\* One pass of the loop of iterativeDeepening.
Iterate ==
  /\ pc = "search"
  /\ \E alias \in BOOLEAN, ms \in ElapsedMs :
       WindowSearch(IF go.depth >= 4 THEN go.score - go.window ELSE go.alpha,
                    IF go.depth >= 4 THEN go.score + go.window ELSE go.beta,
                    [prune |-> TRUE, alias |-> alias], ms)
  /\ UNCHANGED <<board, depthOpt, cmd, line, rest, script, moved, plies>>

\* The fallback of the go handler when bestMove is still the default move.
Fallback(moves) ==
  IF moves # <<>> THEN MoveString(moves[1]) ELSE <<"0", "0", "0", "0">>

\* The go handler after iterativeDeepening returned: the bestmove line.
GoFinish ==
  /\ pc = "bestmove"
  /\ out' = Append(out,
       [info |-> FALSE,
        move |-> IF go.bestMove.from # go.bestMove.to \/ go.bestMove.from # 0
                 THEN MoveString(go.bestMove)
                 ELSE Fallback(generateMoves(board, FALSE))])
  /\ pc' = "idle"
  /\ UNCHANGED <<board, tables, depthOpt, cmd, line, go, rest, script, moved, plies>>

\* ---------------------------------------------- sessions of arbitrary lines

MaxPlies == 9

Tokens ==
  {<<"h", "2", "h", "4">>, <<"g", "7", "g", "5">>, <<"h", "4", "g", "5">>,
   <<"h", "7", "h", "6">>, <<"g", "5", "h", "6">>, <<"h", "6", "h", "7">>,
   <<"h", "7", "g", "8", "q">>, <<"h", "7", "g", "8">>, <<"h", "7", "g", "8", "n">>,
   <<"h", "4", "h", "5">>, <<"h", "5", "g", "6">>,
   <<"g", "5", "g", "6">>, <<"g", "6", "g", "7">>, <<"g", "7", "h", "8", "q">>,
   <<"g", "1", "h", "3">>, <<"g", "2", "g", "3">>, <<"f", "1", "g", "2">>,
   <<"e", "1", "g", "1">>, <<"h", "1", "g", "1">>, <<"e", "1", "f", "1">>,
   <<"g", "8", "f", "6">>, <<"e", "7", "e", "6">>, <<"f", "8", "e", "7">>,
   <<"e", "8", "g", "8">>}

FreeLines ==
  {Line("isready"), Line("ucinewgame"), Line("foo"), EmptyLine,
   PositionLine("startpos", TRUE, <<>>), PositionLine("startpos", FALSE, <<>>)}

\* One pass of the token loop on any of Tokens,  moves  being what
\* generateMoves returns in parseMove: it is the same for every token.
AnyToken(moves) ==
  \E tok \in Tokens :
    /\ ApplyParsed(ParseAmong(moves, tok))
    /\ UNCHANGED <<tables, depthOpt, cmd, line, pc, out, go, rest, script>>

\* The line names its moves one token at a time.
FreeToken ==
  /\ pc = "moves"
  /\ rest = <<>>
  /\ script = <<>>
  /\ plies < MaxPlies
  /\ AnyToken(generateMoves(board, FALSE))

Init ==
  /\ InitCommon
  /\ script = <<>>

Next ==
  \/ \E l \in FreeLines :
       \/ IsReady(l)
       \/ UciNewGame(l)
       \/ Position(l)
       \/ NoBranch(l)
  \/ FreeToken
  \/ PositionEnd

Spec == Init /\ [][Next]_vars


\* -------------------------------------------------- sessions of fixed text

\* White's h-pawn reaches h7 and can capture on g8, promoting.
PromotionLine ==
  <<<<"h", "2", "h", "4">>, <<"g", "7", "g", "5">>, <<"h", "4", "g", "5">>,
    <<"h", "7", "h", "6">>, <<"g", "5", "h", "6">>, <<"a", "7", "a", "6">>,
    <<"h", "6", "h", "7">>, <<"a", "6", "a", "5">>>>

\* Black to move mates with the quiet move d8h4, which is generated late.
QuietMateLine ==
  <<<<"g", "1", "h", "3">>, <<"b", "7", "b", "6">>, <<"b", "2", "b", "3">>,
    <<"d", "7", "d", "6">>, <<"f", "2", "f", "3">>, <<"h", "7", "h", "5">>,
    <<"c", "2", "c", "3">>, <<"a", "7", "a", "5">>, <<"c", "3", "c", "4">>,
    <<"c", "8", "h", "3">>, <<"g", "2", "h", "3">>, <<"e", "7", "e", "5">>,
    <<"b", "3", "b", "4">>>>

\* Black to move has no legal move and is not in check.
StalemateLine ==
  <<<<"e", "2", "e", "3">>, <<"a", "7", "a", "5">>, <<"d", "1", "h", "5">>,
    <<"a", "8", "a", "6">>, <<"h", "5", "a", "5">>, <<"h", "7", "h", "5">>,
    <<"h", "2", "h", "4">>, <<"a", "6", "h", "6">>, <<"a", "5", "c", "7">>,
    <<"f", "7", "f", "6">>, <<"c", "7", "d", "7">>, <<"e", "8", "f", "7">>,
    <<"d", "7", "b", "7">>, <<"d", "8", "d", "3">>, <<"b", "7", "b", "8">>,
    <<"d", "3", "h", "7">>, <<"b", "8", "c", "8">>, <<"f", "7", "g", "6">>,
    <<"c", "8", "e", "6">>>>

\* Tokens that are not moves in UCI format.
MalformedLine ==
  <<<<"e", "2", "e", "4", "q">>, <<"e", "7", "e", "5">>,
    <<"i", "1", "a", "3">>, <<"e", "5", "e", "4">>,
    <<"h", "7", "g", "8", "n">>>>

Texts ==
  {<<Line("uci"), SetOptionLine("Depth", 1), Line("isready"), Line("ucinewgame"),
     PositionLine("startpos", TRUE, <<<<"e", "2", "e", "4">>>>), Line("go"),
     Line("foo"), EmptyLine, Line("quit")>>,
   <<PositionLine("startpos", TRUE, PromotionLine), GoDepth(1), GoDepth(1)>>,
   <<PositionLine("startpos", TRUE, QuietMateLine), GoDepth(1)>>,
   <<PositionLine("startpos", TRUE, StalemateLine), [GoDepth(6) EXCEPT !.movetime = 10]>>,
   <<[GoDepth(1) EXCEPT !.wtime = 1000, !.btime = 1000, !.winc = 10],
     [GoDepth(1) EXCEPT !.wtime = 1000, !.btime = 1000, !.movestogo = 0]>>,
   <<PositionLine("startpos", TRUE, MalformedLine)>>,
   <<Line("isready"), EmptyLine, Line("foo"), Line("isready")>>,
   <<SetOptionLine("Depth", 1), PositionLine("startpos", TRUE, <<<<"d", "2", "d", "4">>>>),
     Line("go"), Line("ucinewgame"), Line("ucinewgame"), Line("isready")>>}

Sessions == {text \o <<Eof>> : text \in Texts}

\* Every line of every session.
ScriptLines == UNION {{s[i] : i \in DOMAIN s} : s \in Sessions} \ {Eof}

InitGo ==
  /\ InitCommon
  /\ script \in Sessions

\* The position handler reads the next token of its line.
ScriptToken ==
  /\ rest # <<>>
  /\ Token(Head(rest))

NextGo ==
  \/ \E l \in ScriptLines :
       \/ Uci(l)
       \/ SetOption(l)
       \/ IsReady(l)
       \/ UciNewGame(l)
       \/ Position(l)
       \/ GoStart(l)
       \/ Quit(l)
       \/ NoBranch(l)
  \/ ScriptToken
  \/ PositionEnd
  \/ Iterate
  \/ GoFinish
  \/ InputEnd

SpecGo == InitGo /\ [][NextGo]_vars



\* ------------------------------------------------- the root node of a search

\* The steps search() takes at the root node (ply 0) of one iteration of
\* iterativeDeepening, one at a time.  The position is one the position
\* handler can have set up, the history table holds values earlier iterations
\* can have left, and which move raises alpha or cuts off is any quiet move:
\* the scores the subtrees return are left open.

\* Both sides castle; pawns stand in the centre and beyond the middle.
CastleLine ==
  <<<<"e", "2", "e", "4">>, <<"d", "7", "d", "5">>, <<"e", "4", "e", "5">>,
    <<"d", "5", "d", "4">>, <<"g", "1", "f", "3">>, <<"b", "8", "c", "6">>,
    <<"f", "1", "e", "2">>, <<"c", "8", "d", "7">>, <<"e", "1", "g", "1">>,
    <<"e", "7", "e", "6">>, <<"a", "2", "a", "3">>, <<"d", "8", "e", "7">>,
    <<"a", "3", "a", "4">>, <<"e", "8", "c", "8">>>>

\* What the position handler leaves after  position startpos moves  with the
\* first k tokens of a line: the board, and the history of the moves applied.
SquaresLeft(m) ==
  {m.from} \cup (IF m.piece = KING /\ Abs(m.to - m.from) = 2
                 THEN CastleRook(m.to).sqs \cap {0, 7, 56, 63} ELSE {})

PlayParsed(s, r) ==
  IF r.ok
  THEN [board |-> makeMove(s.board, r.move),
        moved |-> s.moved \cup SquaresLeft(r.move),
        plies |-> s.plies + 1]
  ELSE s

\* (the test of s.plies only has s evaluated before the move generator is entered)
PlayToken(s, tok) ==
  IF s.plies < 0 THEN s ELSE PlayParsed(s, parseMove(s.board, tok))

\* The positions a line goes through: the start position and the position
\* after each of the first k tokens.
PlayNext(played, tok) == Append(played, PlayToken(played[Len(played)], tok))

RECURSIVE Played(_, _)
Played(toks, k) ==
  IF k = 0 THEN <<[board |-> BoardInit, moved |-> {}, plies |-> 0]>>
  ELSE PlayNext(Played(toks, k - 1), toks[k])

NodeLines == {PromotionLine, QuietMateLine, StalemateLine, CastleLine}

PositionsOf(played) == {played[i] : i \in 1..Len(played)}

NodePositions == UNION {PositionsOf(Played(l, Len(l))) : l \in NodeLines}

\* The largest depth a go line can ask for.
MaxSearchDepth == 30

\* The depths of the iteration the node belongs to.
IterationDepths == {1, MaxSearchDepth}

\* Values of a history entry: none, the largest two that the largest update
\* (depth 31: depth 30 and the check extension) leaves at most at and just
\* above 100000, and the largest an entry can hold.
HistoryValues ==
  {0, 100000 - (MaxSearchDepth + 1) * (MaxSearchDepth + 1),
      100001 - (MaxSearchDepth + 1) * (MaxSearchDepth + 1), 100000}

\* The vector the root's move loop runs over:  scoreMoves(generateMoves(b)) ,
\* the slot of the transposition table read as search() reads it.  While no
\* killer is registered no address compares equal, whatever the allocator
\* does, and the steps below pass FALSE for alias.
RootMoves(b, t, alias) ==
  scoreMoves(generateMoves(b, FALSE), b, TTProbe(t.tt, b.hash).hash = b.hash,
             IF TTProbe(t.tt, b.hash).hash = b.hash /\ TTProbe(t.tt, b.hash).bestMove # 0
             THEN UnpackInto(DefaultMove, TTProbe(t.tt, b.hash).bestMove)
             ELSE DefaultMove,
             0, t, alias)

\* The depth of the root node after the check extension.
RootDepth == IF isInCheck(board) THEN go.depth + 1 ELSE go.depth

Quiet(b, m) == m.to \notin b.occupied[1 - b.side]

\* History entries for the first quiet move of the position and for a move of
\* the other side.
NodeHistory(s, v, w) ==
  LET moves == generateMoves(s.board, FALSE)
      quiet == SelectSeq(moves, LAMBDA m : Quiet(s.board, m))
      h1 == IF quiet = <<>> THEN <<>>
            ELSE HistoryUpdate(<<>>, s.board.side, quiet[1].from, quiet[1].to, 0)
      k1 == IF quiet = <<>> THEN <<0, 0, 0>>
            ELSE <<s.board.side, quiet[1].from, quiet[1].to>>
      k2 == <<1 - s.board.side, 1, 18>>
  IN  [k \in DOMAIN h1 \cup {k2} |-> IF k = k2 THEN w ELSE v]

InitNode ==
  /\ \E s \in NodePositions, v \in HistoryValues, w \in {99999} :
       /\ board = s.board
       /\ moved = s.moved
       /\ plies = s.plies
       /\ tables = [tt |-> <<>>, killers |-> <<>>, history |-> NodeHistory(s, v, w)]
  /\ \E d \in IterationDepths :
       go = [depth |-> d, maxDepth |-> MaxSearchDepth, timeLimit |-> 0, score |-> 0,
             alpha |-> IF d >= 4 THEN -50 ELSE -INF,
             beta |-> IF d >= 4 THEN 50 ELSE INF,
             window |-> 50, bestMove |-> DefaultMove,
             completed |-> [i \in 1..(d - 1) |-> i]]
  /\ depthOpt = DefaultDepth
  /\ cmd = "go"
  /\ line = GoDepth(go.depth)
  /\ pc = "node"
  /\ out = <<>>
  /\ rest = <<>>
  /\ script = <<>>

\* "if (score > alpha)" holds for moves[i] and the loop goes on: the move
\* becomes the best move and, being quiet, has its history entry raised.
RaiseAlpha(moves) ==
  \E i \in 1..Len(moves) :
    /\ Quiet(board, moves[i])
    /\ tables' = [tables EXCEPT !.history =
                    HistoryUpdate(@, board.side, moves[i].from, moves[i].to, RootDepth)]
    /\ go' = [go EXCEPT !.bestMove = moves[i]]
    /\ pc' = "raised"
    /\ UNCHANGED <<board, depthOpt, cmd, line, out, rest, script, moved, plies>>

Raise ==
  /\ pc = "node"
  /\ RaiseAlpha(RootMoves(board, tables, FALSE))

\* "if (alpha >= beta)" holds for the quiet move moves[i]: the history entry
\* is raised, the move is registered as a killer and the loop is left.  The
\* window is finite from depth 4 on.
CutoffBy(moves) ==
  \E i \in 1..Len(moves), alias \in BOOLEAN :
    /\ Quiet(board, moves[i])
    /\ tables' = [tables EXCEPT
                    !.history = HistoryUpdate(@, board.side, moves[i].from,
                                              moves[i].to, RootDepth),
                    !.killers = KillerUpdate(@, i, 0, alias)]
    /\ go' = [go EXCEPT !.bestMove = moves[i]]
    /\ pc' = "cutoff"
    /\ UNCHANGED <<board, depthOpt, cmd, line, out, rest, script, moved, plies>>

Cutoff ==
  /\ pc = "node"
  /\ go.depth >= 4
  /\ CutoffBy(RootMoves(board, tables, FALSE))

\* The futility test after a late quiet move that did not cut off, alpha
\* being any value a move can have raised it to.
FutilityAlphas == {-INF, 0, INF}

FutilityTest ==
  /\ pc = "node"
  /\ RootDepth <= 2
  /\ ~isInCheck(board)
  /\ \E alpha \in FutilityAlphas :
       pc' = IF evaluate(board) + RootDepth * 100 < alpha THEN "broke" ELSE "kept"
  /\ UNCHANGED <<board, tables, depthOpt, cmd, line, out, go, rest, script, moved, plies>>

\* The first search of moves[i] reaches a child in which null-move pruning is
\* tried: the board becomes the copy the null-move search is given.
NullMoveAfter(moves) ==
  \E i \in 1..Len(moves) :
    /\ ~isInCheck(makeMove(board, moves[i]))
    /\ RootDepth - 1
         - Reduction(board, moves[i], i, RootDepth, isInCheck(board), 0, tables,
                     [prune |-> TRUE, alias |-> FALSE]) >= 3
    /\ board' = NullMoveCopy(makeMove(board, moves[i]))
    /\ moved' = moved \cup SquaresLeft(moves[i])
    /\ plies' = plies + 1
    /\ pc' = "nullmove"
    /\ UNCHANGED <<tables, depthOpt, cmd, line, out, go, rest, script>>

NullMove ==
  /\ pc = "node"
  /\ NullMoveAfter(RootMoves(board, tables, FALSE))

\* The positions two plies apart in one game: the root of a go and the root
\* of the next go, after the move played and its reply.
RootsOf(played) ==
  {[from |-> played[i], to |-> played[i + 2]] : i \in 1..(Len(played) - 2)}

NextRoots == UNION {RootsOf(Played(l, Len(l))) : l \in NodeLines}

\* The search returned after the cutoff; the position handler has set up the
\* position two plies on and the next go has entered search() at ply 0.  The
\* tables are as the search left them.
NextRoot ==
  /\ pc = "cutoff"
  /\ \E r \in NextRoots :
       /\ r.from.board = board
       /\ board' = r.to.board
       /\ moved' = r.to.moved
       /\ plies' = r.to.plies
  /\ pc' = "later"
  /\ UNCHANGED <<tables, depthOpt, cmd, line, out, go, rest, script>>

NextNode ==
  \/ Raise
  \/ Cutoff
  \/ FutilityTest
  \/ NullMove
  \/ NextRoot

SpecNode == InitNode /\ [][NextNode]_vars


\* ------------------------------------------------- properties of positions

\* The rules of chess, stated on the twelve piece sets alone: side c attacks
\* square t in position a.
RankOf(s) == s \div 8
FileOf(s) == s % 8
Sign(x) == IF x > 0 THEN 1 ELSE IF x < 0 THEN -1 ELSE 0

PiecesOn(a) == UNION {a.pieces[c][p] : <<c, p>> \in Sides \X Kinds}

\* No piece stands strictly between s and t, which share a line.
ClearPath(a, s, t) ==
  LET dr == RankOf(t) - RankOf(s)
      df == FileOf(t) - FileOf(s)
  IN  \A k \in 1..(Max(Abs(dr), Abs(df)) - 1) :
        ((RankOf(s) + k * Sign(dr)) * 8 + FileOf(s) + k * Sign(df)) \notin PiecesOn(a)

PieceAttacks(a, c, p, s, t) ==
  LET dr == RankOf(t) - RankOf(s)
      df == FileOf(t) - FileOf(s)
      straight == s # t /\ (dr = 0 \/ df = 0) /\ ClearPath(a, s, t)
      diagonal == s # t /\ Abs(dr) = Abs(df) /\ ClearPath(a, s, t)
  IN  CASE p = PAWN -> Abs(df) = 1 /\ dr = (IF c = WHITE THEN 1 ELSE -1)
        [] p = KNIGHT -> {Abs(dr), Abs(df)} = {1, 2}
        [] p = BISHOP -> diagonal
        [] p = ROOK -> straight
        [] p = QUEEN -> straight \/ diagonal
        [] OTHER -> s # t /\ Abs(dr) <= 1 /\ Abs(df) <= 1

Attacks(a, c, t) ==
  \E p \in Kinds : \E s \in a.pieces[c][p] : PieceAttacks(a, c, p, s, t)

\* After m, the king of the side that moved is on the board and the other
\* side attacks no square it stands on.
KingSafeAfter(b, a) ==
  /\ a.pieces[b.side][KING] # {}
  /\ \A k \in a.pieces[b.side][KING] : ~Attacks(a, 1 - b.side, k)

AllKingSafe(b, moves) ==
  \A i \in 1..Len(moves) : KingSafeAfter(b, makeMove(b, moves[i]))

\* C2: in every position the position handler holds while it applies tokens
\* (every position a session reaches is held there), each move generateMoves
\* returns, with capturesOnly false and with capturesOnly true, leaves the
\* mover's king on the board and not attacked by the opponent after makeMove.
GeneratedMovesKeepKingSafe ==
  pc = "moves" =>
    \A capturesOnly \in BOOLEAN :
      AllKingSafe(board, generateMoves(board, capturesOnly))

\* The side to move is in check, the filter of generateMoves has rejected
\* moves, and a capture is among the moves it kept.
InCheckWithRejectedMoves ==
  /\ pc = "moves"
  /\ isInCheck(board)
  /\ Len(generateMoves(board, FALSE)) < Len(PseudoMoves(board, FALSE))
  /\ generateMoves(board, TRUE) # <<>>

\* C3: in every position reached, the hash makeMove maintains step by step
\* equals zobristHash computed from pieces, castle, ep and side.
HashIsZobristHash == board.hash = zobristHash(board)

\* A pawn has promoted with a capture on h8, which also took a castling right.
PromotedOnRookSquare ==
  /\ plies > 0
  /\ 63 \in board.pieces[WHITE][QUEEN]
  /\ Cardinality(board.pieces[WHITE][QUEEN]) = 2
  /\ ~HasBit(board.castle, 4)
  /\ HasBit(board.castle, 8)

\* C4: in every position reached, occupied[s] is the union of the six piece
\* sets of side s, all is the union of the two, and no square is in two of
\* the twelve piece sets.
OccupancyCoherent ==
  /\ \A c \in Sides : board.occupied[c] = UNION {board.pieces[c][p] : p \in Kinds}
  /\ board.all = board.occupied[WHITE] \cup board.occupied[BLACK]
  /\ \A x \in Sides \X Kinds : \A y \in Sides \X Kinds :
       x # y => board.pieces[x[1]][x[2]] \cap board.pieces[y[1]][y[2]] = {}

\* White's h-pawn went to h5 and stands on g6: it captured en passant, and
\* the pawn it took is gone from g5.
EnPassantCaptured ==
  /\ 39 \in moved
  /\ 46 \in board.pieces[WHITE][PAWN]
  /\ 38 \notin board.all
  /\ 54 \notin board.all

\* The home squares of the king and the rook of castling bit k, and their side.
CastleHome ==
  [k \in {1, 2, 4, 8} |->
     CASE k = 1 -> [side |-> WHITE, king |-> 4, rook |-> 7]
       [] k = 2 -> [side |-> WHITE, king |-> 4, rook |-> 0]
       [] k = 4 -> [side |-> BLACK, king |-> 60, rook |-> 63]
       [] OTHER -> [side |-> BLACK, king |-> 60, rook |-> 56]]

\* C5: in every position reached, a castling bit is set only if nothing has
\* left the king's and the rook's home square since Board::init and a rook of
\* that side stands on the rook's home square; and every castling move
\* generated finds a rook of the mover on the home square it castles with.
CastlingRightsSound ==
  /\ \A k \in {1, 2, 4, 8} :
       HasBit(board.castle, k) =>
         /\ CastleHome[k].king \notin moved
         /\ CastleHome[k].rook \notin moved
         /\ CastleHome[k].rook \in board.pieces[CastleHome[k].side][ROOK]
  /\ \A i \in DOMAIN CastlingMoves(board) :
       (CastleRook(CastlingMoves(board)[i].to).sqs \cap {0, 7, 56, 63})
         \subseteq board.pieces[board.side][ROOK]

\* Black has castled, so holds no right, and a castling move of White is
\* generated.
CastlingGeneratedAfterRightsLost ==
  /\ board.side = WHITE
  /\ board.castle = 3
  /\ 62 \in board.pieces[BLACK][KING]
  /\ CastlingMoves(board) # <<>>


\* What a move captures: the kind of the piece on its target square, a pawn
\* when a pawn moves diagonally onto the en-passant square, -1 otherwise.
CaptureValues == <<100, 300, 300, 500, 900, 10000>>

VictimOf(b, m) ==
  IF m.to \in b.occupied[1 - b.side]
  THEN CHOOSE p \in Kinds : m.to \in b.pieces[1 - b.side][p]
  ELSE IF m.piece = PAWN /\ m.to = b.ep /\ (m.to % 8) # (m.from % 8) THEN PAWN
  ELSE -1

\* C17: in every position that is set up, move ordering scores every
\* capture, en-passant captures included, 100000 + 10 * V(victim) -
\* V(attacker), plus the promotion bonus when it promotes.
CapturesScoredByVictim ==
  pc = "moves" =>
    \A alias \in BOOLEAN :
      \A j \in 1..Len(generateMoves(board, FALSE)) :
        LET m == generateMoves(board, FALSE)[j]
        IN  VictimOf(board, m) # -1 =>
              MoveScore(m, j, board, FALSE, DefaultMove, 0, tables, alias)
                = 100000 + 10 * CaptureValues[VictimOf(board, m) + 1]
                    - CaptureValues[m.piece + 1]
                    + (IF m.promo = QUEEN THEN 80000 ELSE 0)


\* The place of a move in the vector generateMoves returned.
GeneratedAt(generated, m) ==
  CHOOSE j \in 1..Len(generated) : MoveEq(generated[j], m)

OrderedByScoreThenGeneration(generated, sorted) ==
  \A i \in 1..Len(sorted) : \A k \in (i + 1)..Len(sorted) :
    \/ sorted[i].score > sorted[k].score
    \/ /\ sorted[i].score = sorted[k].score
       /\ GeneratedAt(generated, sorted[i]) < GeneratedAt(generated, sorted[k])

\* C18: in every position that is set up, the vector the move loop of a
\* search runs over holds the moves in non-increasing order of score, moves
\* of equal score in the order generateMoves produced them.
SearchedByScoreThenGeneration ==
  pc = "moves" =>
    \A alias \in BOOLEAN :
      OrderedByScoreThenGeneration(generateMoves(board, FALSE),
                                   RootMoves(board, tables, alias))


\* -------------------------------------------------- properties of sessions

\* A move in UCI format: the two squares, then the promotion letter.
SquareText(sq) == <<FileChar[FileOf(sq) + 1], RankChar[RankOf(sq) + 1]>>
UciFormat(m) ==
  SquareText(m.from) \o SquareText(m.to)
  \o (IF m.promo = 0 THEN <<>> ELSE <<<<"", "n", "b", "r", "q">>[m.promo + 1]>>)

\* The go handler has returned to the read loop.
GoReturned == pc = "idle" /\ cmd = "go"

BestMoveLines(o) == SelectSeq(o, LAMBDA x : ~x.info)

\* text  is what bestmove may print when  legal  are the legal moves.
NamesOneOf(text, legal) ==
  IF legal = <<>> THEN text = <<"0", "0", "0", "0">>
  ELSE \E i \in 1..Len(legal) : UciFormat(legal[i]) = text

\* C1: when a go has returned, it has printed exactly one bestmove line; the
\* line names a legal move of the board in UCI format, promotion letter
\* included, and names 0000 exactly when there is no legal move.
BestMoveIsLegalMove ==
  GoReturned =>
    /\ Len(BestMoveLines(out)) = 1
    /\ NamesOneOf(BestMoveLines(out)[1].move, generateMoves(board, FALSE))

\* The side to move in b has a move after which the other side is in check
\* and has no legal move.
MatesWith(b, a) ==
  /\ generateMoves(a, FALSE) = <<>>
  /\ \E k \in a.pieces[a.side][KING] : Attacks(a, b.side, k)

MatesAmong(b, moves) == \E i \in 1..Len(moves) : MatesWith(b, makeMove(b, moves[i]))

MatesInOne(b) == MatesAmong(b, generateMoves(b, FALSE))

\* The score of the search of the same depth with every pruning off.
ReferenceScore(b, depth) ==
  search(b, depth, 0 - INF, INF, DefaultMove, 0, TRUE, EmptyTables,
         [prune |-> FALSE, alias |-> FALSE]).score

\* C6, for mate in one: when iterative deepening has ended on a position in
\* which the side to move mates in one, the score of its last search, run
\* with the prunings on, is the mate score MATE - 1, which is the score of
\* the search with the prunings off.
PrunedSearchKeepsMateScore ==
  (pc = "bestmove" /\ MatesInOne(board)) =>
    /\ go.score = MATE - 1
    /\ go.score = ReferenceScore(board, go.depth)

\* The token has the form of a move in UCI format.
WellFormed(tok) ==
  /\ Len(tok) \in {4, 5}
  /\ \A i \in {1, 3} : \E f \in 1..8 : FileChar[f] = tok[i]
  /\ \A i \in {2, 4} : \E r \in 1..8 : RankChar[r] = tok[i]
  /\ Len(tok) = 5 => tok[5] \in {"q", "r", "b", "n"}

SquareNamed(f, r) ==
  ((CHOOSE i \in 1..8 : FileChar[i] = f) - 1)
  + 8 * ((CHOOSE i \in 1..8 : RankChar[i] = r) - 1)

\* The token denotes one of the legal moves: its squares, and a promotion
\* letter exactly when the move promotes.
DenotesOneOf(tok, legal) ==
  /\ WellFormed(tok)
  /\ \E i \in 1..Len(legal) :
       /\ legal[i].from = SquareNamed(tok[1], tok[2])
       /\ legal[i].to = SquareNamed(tok[3], tok[4])
       /\ legal[i].promo # 0 <=> Len(tok) = 5

\* C7: each pass of the token loop of the position handler changes the board
\* exactly when its token denotes a legal move of the board, and consumes
\* the token either way.
TokenAppliedIffLegal ==
  [][(pc = "moves" /\ rest # <<>> /\ rest' = Tail(rest)) =>
       (board' # board <=> DenotesOneOf(Head(rest), generateMoves(board, FALSE)))]_vars

Recognized == {"uci", "setoption", "isready", "ucinewgame", "position", "go", "quit"}

\* C8: reading a line whose first word is no command, or that holds no word,
\* prints nothing, changes neither the board nor the tables nor the options,
\* and leaves the program in its read loop.
UnrecognizedLineIgnored ==
  [][(pc = "idle" /\ script # <<>> /\ script' = Tail(script)
        /\ Head(script).cmd \notin Recognized) =>
       (out' = <<>> /\ pc' = "idle"
          /\ UNCHANGED <<board, tables, depthOpt>>)]_vars

InfoDepths(o) ==
  LET infos == SelectSeq(o, LAMBDA x : x.info)
  IN  [i \in 1..Len(infos) |-> infos[i].depth]

\* C9: when a go has returned, the depths of the info lines it printed are
\* the depths whose search completed, each once and in increasing order, and
\* the bestmove line comes after them.
OneInfoPerCompletedDepth ==
  GoReturned =>
    /\ InfoDepths(out) = go.completed
    /\ \A i \in 1..Len(out) : out[i].info <=> i < Len(out)

\* The time left of the side to move as the go line states it.
TimeLeftOf(l) ==
  IF board.side = WHITE THEN Max(l.wtime, 0) ELSE Max(l.btime, 0)

ByClock(l) ==
  /\ ~l.infinite
  /\ l.movetime <= 0
  /\ l.wtime > 0 \/ l.btime > 0

\* C10: no go line ends the program abnormally, and the time a go line with
\* clock times allots is at most a third of the mover's time left.
GoNeverEndsTheProgram ==
  /\ pc # "crashed"
  /\ (pc = "search" /\ ByClock(line)) => 3 * go.timeLimit <= TimeLeftOf(line)

\* C11: a ucinewgame line read when the command run last was ucinewgame leaves
\* the board, the transposition, killer and history tables and the options
\* exactly as the first one left them.
NewGameTwiceIsNewGameOnce ==
  [][(/\ pc = "idle"
      /\ cmd = "ucinewgame"
      /\ script # <<>>
      /\ script' = Tail(script)
      /\ Head(script).cmd = "ucinewgame")
     => UNCHANGED <<board, tables, depthOpt>>]_vars

\* The second of two ucinewgame lines that follow a search has been run.
SecondNewGameRun ==
  /\ pc = "idle"
  /\ cmd = "ucinewgame"
  /\ depthOpt = 1
  /\ Len(script) = 2
  /\ Head(script).cmd = "isready"
  /\ board = BoardInit
  /\ tables = EmptyTables


StoredMoveOrderedFirst ==
  (pc = "idle" /\ cmd = "go"
   /\ TTProbe(tables.tt, board.hash).hash = board.hash
   /\ \E j \in 1..Len(generateMoves(board, FALSE)) :
        PackMove(generateMoves(board, FALSE)[j]) = TTProbe(tables.tt, board.hash).bestMove)
  => \A alias \in BOOLEAN :
       /\ PackMove(RootMoves(board, tables, alias)[1])
            = TTProbe(tables.tt, board.hash).bestMove
       /\ \A j \in 1..Len(RootMoves(board, tables, alias)) :
            RootMoves(board, tables, alias)[j].score = 1000000 <=> j = 1


\* --------------------------------------------- properties of the root node

\* The position with the ranks mirrored (sq XOR 56) and the colours of all
\* pieces swapped, the side to move kept.
MirrorSquares(bb) == {((7 - (sq \div 8)) * 8) + (sq % 8) : sq \in bb}

Mirrored(b) ==
  [b EXCEPT !.pieces = [c \in Sides |->
                          [p \in Kinds |-> MirrorSquares(b.pieces[1 - c][p])]]]

\* C12: the evaluation of the mirrored, colour-swapped position is the
\* negation of the evaluation of the position.
EvaluateNegatesUnderMirror == evaluate(Mirrored(board)) = 0 - evaluate(board)

\* The futility test has evaluated a position with a castled king, a pawn in
\* the centre and an advanced pawn, whose evaluation is not zero.
EvaluatedCastledPosition ==
  /\ pc \in {"broke", "kept"}
  /\ board.pieces[WHITE][KING] = {6}
  /\ board.pieces[WHITE][PAWN] \cap {27, 28, 35, 36} # {}
  /\ \E sq \in board.pieces[BLACK][PAWN] : (sq \div 8) <= 3
  /\ evaluate(board) # 0

\* C14: the copy a null-move search is given has the hash that zobristHash
\* computes from its fields.
NullMoveCopyHashIsZobristHash ==
  pc = "nullmove" => board.hash = zobristHash(board)

\* C15: at a later node of the ply at which the quiet move go.bestMove cut
\* off, whatever the allocator does, a quiet move equal to it (no move is the
\* TT move here) is scored 90000 by scoreMoves, and a move not equal to it,
\* no other move being registered at the ply, is not taken for a killer.
KillerRecognisedByValue ==
  pc = "later" =>
    \A alias \in BOOLEAN :
      \A j \in 1..Len(generateMoves(board, FALSE)) :
        LET m == generateMoves(board, FALSE)[j]
        IN  (Quiet(board, m) /\ m.promo = 0) =>
              IF MoveEq(m, go.bestMove)
              THEN MoveScore(m, j, board, FALSE, DefaultMove, 0, tables, alias) = 90000
              ELSE ~isKiller(tables.killers, j, 0, alias)

\* The entry of the move that raised alpha last.
RaisedKey == <<board.side, go.bestMove.from, go.bestMove.to>>

HistoryOf(t, k) == IF k \in DOMAIN t.history THEN t.history[k] ELSE 0

\* C19: every entry of the history table lies in 0..100000 after each step
\* that updates the table, and when the entry the step adds depth * depth to
\* would exceed 100000, the step leaves every entry halved.
HistoryStaysWithinBounds ==
  [][tables'.history # tables.history =>
       /\ \A k \in DOMAIN tables'.history : tables'.history[k] \in 0..100000
       /\ HistoryOf(tables, RaisedKey') + RootDepth * RootDepth > 100000 =>
            /\ HistoryOf(tables', RaisedKey')
                 = (HistoryOf(tables, RaisedKey') + RootDepth * RootDepth) \div 2
            /\ \A k \in DOMAIN tables.history \ {RaisedKey'} :
                 HistoryOf(tables', k) = HistoryOf(tables, k) \div 2]_vars

\* An update at depth 31, in a position where the side to move is in check,
\* has taken an entry above 100000 and halved it and the other entry.
HistoryHalved ==
  /\ pc \in {"raised", "cutoff"}
  /\ isInCheck(board)
  /\ HistoryOf(tables, RaisedKey) = 50000
  /\ HistoryOf(tables, <<1 - board.side, 1, 18>>) = 49999

=============================================================================
